---- MODULE Spec2Model ----
(***************************************************************************)
(* State-machine model of the Bedrock RAG provisioning workflow of         *)
(* bedrock-rag-llm/steps/create_and_sync_knowledge_base.py:                *)
(*   create_aoss_collection -> create_vector_index ->                      *)
(*   create_and_sync_knowledge_base,                                       *)
(* run against one AWS account whose collections, indexes, data sources    *)
(* and ingestion jobs are the shared remote state, and of the retry        *)
(* wrapper around create_knowledge_base_func.                              *)
(*                                                                         *)
(* Names are strings built the way the f-strings build them.  An exception *)
(* is a record; its msg is the sequence of the tokens of str(err).         *)
(***************************************************************************)
EXTENDS Integers, Sequences, FiniteSets, TLC

\* ------------------------------------------------------------ bounds
MaxRuns == 2
MaxForeign == 16
MaxPolls == 4
MaxFiles == 4

\* ------------------------------------------------- program constants
suffix == 392
maxResults == 15
settle_seconds == 10
max_tokens == 512
overlap_percentage == 20
stop_max_attempt_number == 3
wait_random_min == 1000
wait_random_max == 2000

AWS_REGION == "us-east-1"
chunking_strategy == "FIXED_SIZE"
\* Mutant: the id of a knowledge base made by the creation call.
kb_id_created == "kb1"

kb_id == "FFXX2JSM7L"

vector_store_name == "bedrock-vectordb-rag-" \o ToString(suffix)
index_name == "bedrock-vectordb-rag-index-" \o ToString(suffix)
local_index_name == "bedrock-sample-index-" \o ToString(suffix)
name == "bedrock-sample-knowledge-base-" \o ToString(suffix)
description == "Bedrock Knowledge Bases for Web URL and S3 Connector"

Procs == 1..MaxRuns

\* ------------------------------------------------------------ values
None == [type |-> "None"]
NoErr == [type |-> "NoErr"]

ClientError(code, text) ==
    [type |-> "ClientError", has_response |-> TRUE, code |-> code,
     msg |-> <<code, text>>]

\* A botocore error that is no ClientError: it has no .response attribute.
EndpointConnectionError ==
    [type |-> "EndpointConnectionError", has_response |-> FALSE, code |-> "",
     msg |-> <<"Could not connect to the endpoint URL">>]

\* What a boto3 call can raise for a reason other than the state of the
\* resources it names.
BotoFaults ==
    {ClientError("AccessDeniedException", "not authorized"), EndpointConnectionError}

\* opensearch-py errors: str(err) is "Type(status, 'error', 'info')".
RequestError(status, error, info) ==
    [type |-> "RequestError", has_response |-> FALSE, code |-> error,
     msg |-> <<"RequestError", ToString(status), error, info>>]

AuthorizationException ==
    [type |-> "AuthorizationException", has_response |-> FALSE,
     code |-> "security_exception",
     msg |-> <<"AuthorizationException", "403", "security_exception", "no permissions">>]

IndexFaults == {AuthorizationException, RequestError(400, "mapper_parsing_exception", "bad mapping")}

PyError(type, msg) == [type |-> type, has_response |-> FALSE, code |-> "", msg |-> msg]

\* `token in str(err)`
InStr(token, err) == \E i \in DOMAIN err.msg : err.msg[i] = token

Status == {"STARTING", "IN_PROGRESS", "COMPLETE", "FAILED"}

\* -------------------------------------------------------------- state
VARIABLES
    collections,   \* the account's collections, in the order list_collections gives
    indexes,       \* the indexes of the account's collections
    dataSources,   \* the data sources of knowledge base kb_id
    jobs,          \* the ingestion jobs of knowledge base kb_id
    metadataLog,   \* what log_model_metadata was called with
    proc,          \* each workflow invocation's position and local variables
    retry,         \* the retry wrapper's call of create_knowledge_base_func
    pipeline,      \* a run of the llm_peft_finetune pipeline
    dataset        \* a call of split_dataset and the files under data_path

vars == <<collections, indexes, dataSources, jobs, metadataLog, proc, retry, pipeline, dataset>>
remote == <<collections, indexes, dataSources, jobs>>

\* ------------------------------------------------------ small helpers
Min(a, b) == IF a < b THEN a ELSE b

Ok(v) == [ok |-> TRUE, value |-> v, err |-> NoErr]
Raises(e) == [ok |-> FALSE, value |-> None, err |-> e]

Finished == {"done", "failed"}

\* The local variables of one invocation of the workflow.  bound holds the
\* names of the locals of create_aoss_collection that have been assigned;
\* err and index_err are what create_collection and indices.create raised,
\* call_err what the last remote call raised;
\* calls, faults, via and index_result record what the invocation did,
\* kb_used the knowledge-base ids it passed to the remote calls; storage is
\* the local opensearchServerlessConfiguration.
InitLocals ==
    [pc |-> "idle", raised |-> NoErr, err |-> NoErr, bound |-> {},
     collection |-> None, collection_id |-> "", host |-> "",
     collection_arn |-> "", via |-> "none", index_result |-> "none",
     index_response |-> None, index_err |-> NoErr, error_log |-> <<>>,
     waited |-> 0, ds |-> None, job |-> None,
     observed |-> <<>>, getCalls |-> 0, returned |-> "", faults |-> 0,
     calls |-> <<>>, call_err |-> NoErr, tick |-> 0,
     kb_used |-> {}, storage |-> None]

\* An exception leaves the step: the invocation is over.
Raise(l, e) == [l EXCEPT !.pc = "failed", !.raised = e]

Called(l, op) == [l EXCEPT !.calls = Append(@, op)]

\* A call that is given the knowledge-base id kb.
CalledWith(l, op, kb) == [Called(l, op) EXCEPT !.kb_used = @ \cup {kb}]

\* --------------------------------------- the remote collection service
CollectionId(n) == "col" \o ToString(n)
CollectionArn(id) == "arn:aws:aoss:" \o AWS_REGION \o ":collection/" \o id

NewCollection(nm) ==
    LET id == CollectionId(Len(collections) + 1)
    IN  [name |-> nm, id |-> id, arn |-> CollectionArn(id)]

NameExists(nm) == \E i \in DOMAIN collections : collections[i].name = nm

\* create_collection(name, type): a name is unique in the account.
CreateCollectionOutcomes(nm) ==
    (IF NameExists(nm)
       THEN {Raises(ClientError("ConflictException", "collection exists"))}
       ELSE {Ok(NewCollection(nm))})
    \cup {Raises(e) : e \in BotoFaults}

\* list_collections(maxResults=n): the first n summaries, or a fault.
ListCollectionsOutcomes(n) ==
    {Ok(SubSeq(collections, 1, Min(n, Len(collections))))}
    \cup {Raises(e) : e \in BotoFaults}

\* Other users of the account create collections of their own.  A listing is
\* in creation order, so a collection created after vector_store_name lands
\* behind it and changes no answer the workflow reads: those are left out.
CreateForeignCollection ==
    /\ ~NameExists(vector_store_name)
    /\ Len(collections) < MaxForeign
    /\ collections' = Append(collections,
                             NewCollection("other-" \o ToString(Len(collections) + 1)))
    /\ UNCHANGED <<indexes, dataSources, jobs, metadataLog, proc, retry, pipeline, dataset>>

\* ---------------------------------------------- create_aoss_collection
\* Mutant: the handler tests for a code the service never sends.
IsConflictWrongCode(e) == e.code = "ResourceAlreadyExistsException"

\* err.response["Error"]["Code"] == "ConflictException"
IsConflict(e) == e.code = "ConflictException"

\* Mutant: the last summary listed is taken for the one just met.
FindLast(summaries) ==
    IF Len(summaries) > 0 THEN summaries[Len(summaries)] ELSE None

\* Mutant: the first summary is taken, whatever its name.
FindFirst(summaries) == IF Len(summaries) > 0 THEN summaries[1] ELSE None

\* next((c for c in summaries if c["name"] == vector_store_name), None)
FindByName(summaries) ==
    IF \E i \in DOMAIN summaries : summaries[i].name = vector_store_name
      THEN summaries[CHOOSE i \in DOMAIN summaries :
                       /\ summaries[i].name = vector_store_name
                       /\ \A j \in 1..(i - 1) : summaries[j].name # vector_store_name]
      ELSE None

\* Lines 144-147: host, collection_arn and the return.
ReturnCollection(l) ==
    IF "collection_id" \notin l.bound
      THEN Raise(l, PyError("UnboundLocalError", <<"collection_id">>))
      ELSE [l EXCEPT !.host = l.collection_id \o "." \o AWS_REGION \o ".aoss.amazonaws.com",
                     !.collection_arn = l.collection.arn,
                     !.pc = "wait_rules"]

\* Lines 121-128 and 144-147 on the outcome of create_collection.
AfterCreateCollection(l, out) ==
    IF out.ok
      THEN ReturnCollection([l EXCEPT !.collection = out.value,
                                      !.collection_id = out.value.id,
                                      !.bound = {"collection", "collection_id"},
                                      !.via = "created"])
    ELSE IF ~out.err.has_response
      THEN Raise(l, PyError("AttributeError", <<"response">>))
    ELSE IF IsConflict(out.err)
      THEN [l EXCEPT !.pc = "list_collections"]
    ELSE ReturnCollection(l)

\* Mutant: the conflict is raised again, nothing is looked up.
ConflictRaisedAgain(l, out) == Raise(l, l.err)

\* Lines 129-147 on the outcome of list_collections.
ConflictFallback(l, out) ==
    IF ~out.ok THEN Raise(l, out.err)
    ELSE LET c == FindByName(out.value)
         IN  IF c = None
               THEN Raise(l, PyError("TypeError",
                                     <<"'NoneType' object is not subscriptable">>))
             ELSE IF c = None
               THEN Raise(l, PyError("ValueError",
                                     <<"Collection", vector_store_name, "not found">>))
             ELSE ReturnCollection([l EXCEPT !.collection = c,
                                             !.collection_id = c.id,
                                             !.bound = {"collection", "collection_id"},
                                             !.via = "reused"])

Fault(out) == IF ~out.ok /\ out.err \in BotoFaults \cup IndexFaults THEN 1 ELSE 0

\* Invocations of the workflow run one after another; within one, the steps
\* run in the order collection, index, knowledge base, each handing its
\* return values to the next.
create_collection(p) ==
    /\ proc[p].pc = "idle"
    /\ \E out \in CreateCollectionOutcomes(vector_store_name) :
         /\ collections' = IF out.ok THEN Append(collections, out.value)
                                     ELSE collections
         /\ proc' = [proc EXCEPT ![p] =
                       AfterCreateCollection(
                         [Called(@, "create_collection") EXCEPT !.faults = @ + Fault(out), !.call_err = out.err,
                                                                !.err = out.err],
                         out)]
    /\ UNCHANGED <<indexes, dataSources, jobs, metadataLog, retry, pipeline, dataset>>

create_aoss_collection(p) ==
    /\ \A q \in Procs : q < p => proc[q].pc \in Finished
    /\ create_collection(p)

list_collections(p) ==
    /\ proc[p].pc = "list_collections"
    /\ \E out \in ListCollectionsOutcomes(maxResults) :
         proc' = [proc EXCEPT ![p] =
                    ConflictFallback(
                      [Called(@, "list_collections") EXCEPT !.faults = @ + Fault(out), !.call_err = out.err],
                      out)]
    /\ UNCHANGED <<remote, metadataLog, retry, pipeline, dataset>>

\* ------------------------------------------------- create_vector_index
IndexExists(host, idx) == [host |-> host, name |-> idx] \in indexes

\* oss_client.indices.create(index, body) on the collection behind host.
CreateIndexOutcomes(host, idx) ==
    (IF IndexExists(host, idx)
       THEN {Raises(RequestError(400, "resource_already_exists_exception",
                                 "index already exists"))}
       ELSE {Ok([acknowledged |-> TRUE, index |-> idx])})
    \cup {Raises(e) : e \in IndexFaults}

\* Mutant: the handler looks for a text the error does not hold.
AlreadyExistsWrongText(e) == InStr("ResourceAlreadyExistsException", e)

\* "resource_already_exists_exception" in str(err)
AlreadyExists(e) == InStr("resource_already_exists_exception", e)

\* Mutant: every error of indices.create is taken for an existing index.
AfterCreateIndexSwallow(l, out) ==
    IF out.ok
      THEN [l EXCEPT !.index_result = "returned_response",
                     !.index_response = out.value, !.pc = "get_kb"]
      ELSE [l EXCEPT !.index_result = "returned_none",
                     !.index_response = None, !.pc = "get_kb"]

\* Lines 196-210 on the outcome of indices.create.
AfterCreateIndex(l, out) ==
    IF out.ok
      THEN [l EXCEPT !.index_result = "returned_response",
                     !.index_response = out.value, !.pc = "get_kb"]
    ELSE IF AlreadyExists(out.err)
      THEN [l EXCEPT !.index_result = "returned_none",
                     !.index_response = None, !.pc = "get_kb"]
    ELSE Raise([l EXCEPT !.error_log = Append(@, out.err)], out.err)

\* Mutant: the wait is made only for a collection that was just created.
wait_rules_when_created(p) ==
    /\ proc[p].pc = "wait_rules"
    /\ proc' = [proc EXCEPT ![p].waited = IF proc[p].via = "created"
                                            THEN settle_seconds ELSE 0,
                            ![p].pc = "create_index"]
    /\ UNCHANGED <<remote, metadataLog, retry, pipeline, dataset>>

\* Line 193: time.sleep(10) before the index is created.
wait_rules(p) ==
    /\ proc[p].pc = "wait_rules"
    /\ proc' = [proc EXCEPT ![p].waited = settle_seconds, ![p].pc = "create_index"]
    /\ UNCHANGED <<remote, metadataLog, retry, pipeline, dataset>>

create_vector_index(p) ==
    /\ proc[p].pc = "create_index"
    /\ \E out \in CreateIndexOutcomes(proc[p].host, local_index_name) :
         /\ indexes' = IF out.ok
                         THEN indexes \cup {[host |-> proc[p].host,
                                             name |-> local_index_name]}
                         ELSE indexes
         /\ proc' = [proc EXCEPT ![p] =
                       AfterCreateIndex(
                         [Called(@, "indices.create") EXCEPT !.faults = @ + Fault(out), !.call_err = out.err,
                                                             !.index_err = out.err],
                         out)]
    /\ UNCHANGED <<collections, dataSources, jobs, metadataLog, retry, pipeline, dataset>>

\* -------------------------------------- create_and_sync_knowledge_base
\* Lines 232-242.
chunkingStrategyConfiguration ==
    [chunkingStrategy |-> chunking_strategy,
     maxTokens |-> max_tokens,
     overlapPercentage |-> overlap_percentage]

DataSourceId(n) == "ds" \o ToString(n)
IngestionJobId(n) == "job" \o ToString(n)

\* create_data_source(name, knowledgeBaseId, ...): a data source name is
\* unique within its knowledge base.
CreateDataSourceOutcomes(nm, kb, chunking) ==
    (IF \E i \in DOMAIN dataSources :
          dataSources[i].name = nm /\ dataSources[i].knowledgeBaseId = kb
       THEN {Raises(ClientError("ConflictException", "DataSource name exists"))}
       ELSE {Ok([dataSourceId |-> DataSourceId(Len(dataSources) + 1),
                 name |-> nm, knowledgeBaseId |-> kb,
                 chunkingConfiguration |-> chunking])})
    \cup {Raises(e) : e \in BotoFaults}

\* get_knowledge_base / get_data_source: a read that answers or faults.
ReadOutcomes == {Ok(None)} \cup {Raises(e) : e \in BotoFaults}

\* start_ingestion_job(knowledgeBaseId, dataSourceId): a new job, in any
\* status by the time the answer is built.
StartIngestionJobOutcomes(kb, dsid) ==
    {Ok([ingestionJobId |-> IngestionJobId(Len(jobs) + 1), knowledgeBaseId |-> kb,
         dataSourceId |-> dsid, status |-> st]) : st \in Status}
    \cup {Raises(e) : e \in BotoFaults}

\* get_ingestion_job(knowledgeBaseId, dataSourceId, ingestionJobId)
GetIngestionJobOutcomes(jid) ==
    {Ok(jobs[i]) : i \in {j \in DOMAIN jobs : jobs[j].ingestionJobId = jid}}
    \cup {Raises(e) : e \in BotoFaults}

\* The service runs the job: STARTING -> IN_PROGRESS -> {COMPLETE, FAILED}.
JobSteps == {<<"STARTING", "IN_PROGRESS">>, <<"IN_PROGRESS", "COMPLETE">>,
             <<"IN_PROGRESS", "FAILED">>}

IngestionJobProgress ==
    /\ \E i \in DOMAIN jobs : \E st \in Status :
         /\ <<jobs[i].status, st>> \in JobSteps
         /\ jobs' = [jobs EXCEPT ![i].status = st]
    /\ UNCHANGED <<collections, indexes, dataSources, metadataLog, proc, retry, pipeline, dataset>>

\* Mutant: the loop only waits for the job to leave STARTING.
LoopWhileStarting(job) == job.status = "STARTING"

\* Mutant: the loop also ends on FAILED.
LoopUntilTerminal(job) == job.status \notin {"COMPLETE", "FAILED"}

\* while job["status"] != "COMPLETE"
LoopContinues(job) == job.status # "COMPLETE"

\* Mutant: max_tokens and overlap_percentage change places in the record.
MetadataRecordSwapped(l) ==
    [knowledge_base_id |-> kb_id,
     knowledge_base_name |-> name,
     knowledge_base_description |-> description,
     data_source_id |-> l.ds.dataSourceId,
     data_source_name |-> name,
     data_source_description |-> description,
     ingestion_job_id |-> l.job.ingestionJobId,
     ingestion_job_status |-> l.job.status,
     vector_store_name |-> vector_store_name,
     vector_store_id |-> l.collection_id,
     chunking_strategy |-> chunking_strategy,
     max_tokens |-> overlap_percentage,
     overlap_percentage |-> max_tokens]

\* Lines 317-335.
MetadataRecord(l) ==
    [knowledge_base_id |-> kb_id,
     knowledge_base_name |-> name,
     knowledge_base_description |-> description,
     data_source_id |-> l.ds.dataSourceId,
     data_source_name |-> name,
     data_source_description |-> description,
     ingestion_job_id |-> l.job.ingestionJobId,
     ingestion_job_status |-> l.job.status,
     vector_store_name |-> vector_store_name,
     vector_store_id |-> l.collection_id,
     chunking_strategy |-> chunking_strategy,
     max_tokens |-> max_tokens,
     overlap_percentage |-> overlap_percentage]

\* Lines 222-230, built before the first call of the step.
opensearchServerlessConfiguration(arn) ==
    [collectionArn |-> arn,
     vectorIndexName |-> index_name,
     fieldMapping |-> [vectorField |-> "vector", textField |-> "text",
                       metadataField |-> "text-metadata"]]

\* Mutant: the error is caught and logged, and the step ends as if done.
CaughtAndLogged(l, out, next) ==
    IF out.ok THEN next
    ELSE [l EXCEPT !.error_log = Append(@, out.err), !.pc = "done"]

\* A call whose error is not caught: the answer is kept, an error leaves.
Uncaught(l, out, next) == IF out.ok THEN next ELSE Raise(l, out.err)

get_knowledge_base(p) ==
    /\ proc[p].pc = "get_kb"
    /\ \E out \in ReadOutcomes :
         proc' = [proc EXCEPT ![p] =
                    LET l == [CalledWith(@, "get_knowledge_base", kb_id) EXCEPT
                                !.faults = @ + Fault(out), !.call_err = out.err,
                                !.storage = opensearchServerlessConfiguration(
                                              proc[p].collection_arn)]
                    IN  Uncaught(l, out, [l EXCEPT !.pc = "create_ds"])]
    /\ UNCHANGED <<remote, metadataLog, retry, pipeline, dataset>>

create_data_source(p) ==
    /\ proc[p].pc = "create_ds"
    /\ \E out \in CreateDataSourceOutcomes(name, kb_id, chunkingStrategyConfiguration) :
         /\ dataSources' = IF out.ok THEN Append(dataSources, out.value)
                                     ELSE dataSources
         /\ proc' = [proc EXCEPT ![p] =
                       LET l == [CalledWith(@, "create_data_source", kb_id) EXCEPT
                                   !.faults = @ + Fault(out), !.call_err = out.err]
                       IN  Uncaught(l, out, [l EXCEPT !.ds = out.value,
                                                      !.pc = "get_ds"])]
    /\ UNCHANGED <<collections, indexes, jobs, metadataLog, retry, pipeline, dataset>>

get_data_source(p) ==
    /\ proc[p].pc = "get_ds"
    /\ \E out \in ReadOutcomes :
         proc' = [proc EXCEPT ![p] =
                    LET l == [Called(@, "get_data_source") EXCEPT
                                !.faults = @ + Fault(out), !.call_err = out.err]
                    IN  Uncaught(l, out, [l EXCEPT !.pc = "start_job"])]
    /\ UNCHANGED <<remote, metadataLog, retry, pipeline, dataset>>

start_ingestion_job(p) ==
    /\ proc[p].pc = "start_job"
    /\ \E out \in StartIngestionJobOutcomes(kb_id, proc[p].ds.dataSourceId) :
         /\ jobs' = IF out.ok THEN Append(jobs, out.value) ELSE jobs
         /\ proc' = [proc EXCEPT ![p] =
                       LET l == [CalledWith(@, "start_ingestion_job", kb_id) EXCEPT
                                   !.faults = @ + Fault(out), !.call_err = out.err]
                       IN  Uncaught(l, out, [l EXCEPT !.job = out.value,
                                                      !.observed = <<out.value.status>>,
                                                      !.pc = "poll"])]
    /\ UNCHANGED <<collections, indexes, dataSources, metadataLog, retry, pipeline, dataset>>

\* One turn of the polling loop, lines 305-313.
get_ingestion_job(p) ==
    /\ proc[p].pc = "poll"
    /\ LoopContinues(proc[p].job)
    /\ proc[p].getCalls < MaxPolls
    /\ \E out \in GetIngestionJobOutcomes(proc[p].job.ingestionJobId) :
         proc' = [proc EXCEPT ![p] =
                    LET l == [CalledWith(@, "get_ingestion_job", kb_id) EXCEPT
                                !.faults = @ + Fault(out), !.call_err = out.err,
                                !.getCalls = @ + 1]
                    IN  Uncaught(l, out, [l EXCEPT !.job = out.value,
                                                   !.observed = Append(@, out.value.status)])]
    /\ UNCHANGED <<remote, metadataLog, retry, pipeline, dataset>>

\* The loop has no bound of its own.  Past MaxPolls recorded turns it goes
\* on as before; the record keeps its length, its last entry is the status
\* just read, and tick tells one turn from the next.
get_ingestion_job_on(p) ==
    /\ proc[p].pc = "poll"
    /\ LoopContinues(proc[p].job)
    /\ proc[p].getCalls = MaxPolls
    /\ \E out \in GetIngestionJobOutcomes(proc[p].job.ingestionJobId) :
         proc' = [proc EXCEPT ![p] =
                    LET l == [@ EXCEPT !.faults = @ + Fault(out), !.call_err = out.err,
                                        !.kb_used = @ \cup {kb_id}, !.tick = 1 - @]
                    IN  Uncaught(l, out,
                                 [l EXCEPT !.job = out.value,
                                           !.observed[Len(l.observed)] = out.value.status])]
    /\ UNCHANGED <<remote, metadataLog, retry, pipeline, dataset>>

\* The loop is left: lines 315-337.
log_model_metadata(p) ==
    /\ proc[p].pc = "poll"
    /\ ~LoopContinues(proc[p].job)
    /\ metadataLog' = Append(metadataLog, MetadataRecord(proc[p]))
    /\ proc' = [proc EXCEPT ![p] = [Called(@, "log_model_metadata") EXCEPT
                                      !.returned = kb_id, !.pc = "done"]]
    /\ UNCHANGED <<remote, retry, pipeline, dataset>>

\* --------------------------- the retry-wrapped create_knowledge_base_func
\* @retry(wait_random_min=1000, wait_random_max=2000, stop_max_attempt_number=3)
\* runs the function as retrying's Retrying.call does: attempt, reject or
\* return, stop or sleep, attempt again.
KnowledgeBaseFaults ==
    BotoFaults \cup {ClientError("ValidationException", "invalid roleArn")}

\* bedrock_agent_client.create_knowledge_base(...), lines 90-105.
CreateKnowledgeBaseOutcomes(n) ==
    {Ok([knowledgeBaseId |-> "kb" \o ToString(n), name |-> name])}
    \cup {Raises(e) : e \in KnowledgeBaseFaults}

\* random.randint(wait_random_min, wait_random_max), in milliseconds
RandomSleeps ==
    {wait_random_min, (wait_random_min + wait_random_max) \div 2, wait_random_max}

\* Mutant: only errors that carry a response are retried.
RejectClientErrorsOnly(out) == ~out.ok /\ out.err.has_response

\* No retry_on_exception is given: every exception is rejected, no result is.
ShouldReject(out) == ~out.ok

\* Mutant: the cap is passed by one.
ShouldStopOffByOne(attempt_number) == attempt_number > stop_max_attempt_number

\* stop_after_attempt
ShouldStop(attempt_number) == attempt_number >= stop_max_attempt_number

InitRetry ==
    [pc |-> "idle", attempt_number |-> 0, outcomes |-> <<>>, slept |-> <<>>,
     result |-> None, raised |-> NoErr]

AfterAttempt(r, out) ==
    IF ~ShouldReject(out)
      THEN [r EXCEPT !.pc = "returned", !.result = out.value]
    ELSE IF ShouldStop(r.attempt_number)
      THEN [r EXCEPT !.pc = "raised", !.raised = out.err]
    ELSE [r EXCEPT !.pc = "sleep"]

create_knowledge_base_func ==
    /\ retry.pc = "idle"
    /\ retry' = [retry EXCEPT !.pc = "attempt", !.attempt_number = 1]
    /\ UNCHANGED <<remote, metadataLog, proc, pipeline, dataset>>

retry_attempt ==
    /\ retry.pc = "attempt"
    /\ \E out \in CreateKnowledgeBaseOutcomes(retry.attempt_number) :
         retry' = AfterAttempt([retry EXCEPT !.outcomes = Append(@, out)], out)
    /\ UNCHANGED <<remote, metadataLog, proc, pipeline, dataset>>

retry_sleep ==
    /\ retry.pc = "sleep"
    /\ \E ms \in RandomSleeps :
         retry' = [retry EXCEPT !.slept = Append(@, ms),
                                !.attempt_number = @ + 1,
                                !.pc = "attempt"]
    /\ UNCHANGED <<remote, metadataLog, proc, pipeline, dataset>>

\* ------------------------------ llm_peft_finetune (pipelines/nb_train.py)
\* The steps the docstring of llm_peft_finetune lists, lines 63-68.
DocumentedSteps == {"prepare_data", "finetune", "evaluate_model", "promote"}

\* The step calls of the body in their order, lines 77-118; line 120, the
\* call of promote, is a comment.
PipelineBody ==
    <<[step |-> "evaluate_model", id |-> "evaluate_base"],
      [step |-> "log_metadata_from_step_artifact", id |-> "log_metadata_evaluation_base"],
      [step |-> "finetune", id |-> "finetune"],
      [step |-> "evaluate_model", id |-> "evaluate_finetuned"],
      [step |-> "log_metadata_from_step_artifact",
       id |-> "log_metadata_evaluation_finetuned"]>>

PipelineInputs ==
    [system_prompt : {"", "You are a helpful assistant."},
     base_model_id : {"mistralai/Mistral-7B-v0.1", "microsoft/phi-2"},
     use_fast : BOOLEAN, load_in_8bit : BOOLEAN, load_in_4bit : BOOLEAN]

ValueError(text) == PyError("ValueError", <<text>>)

\* Mutant: only the first test is made.
ValidateAtLeastOne(args) ==
    IF ~args.load_in_8bit /\ ~args.load_in_4bit
      THEN ValueError("At least one of load_in_8bit and load_in_4bit must be True.")
      ELSE NoErr

\* Lines 70-75.
Validate(args) ==
    IF ~args.load_in_8bit /\ ~args.load_in_4bit
      THEN ValueError("At least one of load_in_8bit and load_in_4bit must be True.")
    ELSE IF args.load_in_4bit /\ args.load_in_8bit
      THEN ValueError("Only one of load_in_8bit and load_in_4bit can be True.")
    ELSE NoErr

InitPipeline ==
    [pc |-> "idle", args |-> None, invoked |-> <<>>, raised |-> NoErr]

\* The pipeline is called: lines 54-75.
llm_peft_finetune ==
    /\ pipeline.pc = "idle"
    /\ \E args \in PipelineInputs :
         pipeline' = IF Validate(args) = NoErr
                       THEN [pipeline EXCEPT !.args = args, !.pc = "steps"]
                       ELSE [pipeline EXCEPT !.args = args, !.pc = "raised",
                                             !.raised = Validate(args)]
    /\ UNCHANGED <<remote, metadataLog, proc, retry, dataset>>

\* The next step call of the body runs, and returns or fails.
pipeline_step ==
    /\ pipeline.pc = "steps"
    /\ LET call == PipelineBody[Len(pipeline.invoked) + 1]
           ran == [pipeline EXCEPT !.invoked = Append(@, call)]
       IN  \/ pipeline' = [ran EXCEPT !.pc = IF Len(ran.invoked) = Len(PipelineBody)
                                                THEN "done" ELSE "steps"]
           \/ pipeline' = [ran EXCEPT !.pc = "failed",
                                      !.raised = PyError("RuntimeError", <<call.id>>)]
    /\ UNCHANGED <<remote, metadataLog, proc, retry, dataset>>

\* ------------------------------------------------------- split_dataset
\* utils/split_data.py.  A ratio is held in tenths: <<7, 2, 1>> stands for
\* (0.7, 0.2, 0.1).  The pairs are those zip(img_files, lbl_files) forms;
\* pair i is image i with label i.
Ratios ==
    {r \in (0..10) \X (0..10) \X (0..10) : r[1] + r[2] + r[3] \in 9..11}

\* The ratios of tenths whose sum in binary64, added left to right as
\* sum() does, is 0.9999999999999999.
InexactSums == {<<2, 7, 1>>, <<3, 6, 1>>, <<6, 3, 1>>, <<7, 2, 1>>}

\* sum(ratio) == 1.0
SumIsOne(r) == r[1] + r[2] + r[3] = 10 /\ r \notin InexactSums

\* round(x * n) for x = t / 10: Python rounds a half to the even integer.
Round(t, n) ==
    LET q == (t * n) \div 10
        r == (t * n) % 10
    IN  IF r > 5 \/ (r = 5 /\ q % 2 = 1) THEN q + 1 ELSE q

\* files[start:end]
Slice(files, start, end) ==
    LET e == Min(end, Len(files))
    IN  IF start >= e THEN <<>>
        ELSE [i \in 1..(e - start) |-> files[start + i]]

\* Line 39 without the closing None.
split_indices(ratio, n) ==
    <<0, Round(ratio[1], n), Round(ratio[2], n), Round(ratio[3], n)>>

SplitNames == <<"train", "test", "val">>

\* Line 40, the three slices that line 43 pairs with a split name; the
\* fourth, files[split_indices[3]:], has no name and is dropped by zip.
splits(files, ratio) ==
    LET si == split_indices(ratio, Len(files))
    IN  [k \in 1..3 |-> Slice(files, si[k], si[k + 1])]

\* The moves of lines 43-48 in the order they are made.
Moves(files, ratio) ==
    LET sp == splits(files, ratio)
        Tagged(k) == [i \in 1..Len(sp[k]) |-> <<SplitNames[k], sp[k][i]>>]
    IN  Tagged(1) \o Tagged(2) \o Tagged(3)

\* random.shuffle(files): any order of the pairs.
Shuffles(n) ==
    {f \in [1..n -> 1..n] : \A i, j \in 1..n : f[i] = f[j] => i = j}

InitDataset ==
    [pc |-> "idle", n |-> 0, ratio |-> <<0, 0, 0>>, files |-> <<>>,
     todo |-> <<>>, img_at |-> <<>>, lbl_at |-> <<>>, raised |-> NoErr]

\* The call up to line 40: the assertion, the listing, the shuffle.
split_dataset ==
    /\ dataset.pc = "idle"
    /\ \E n \in 0..MaxFiles : \E ratio \in Ratios : \E files \in Shuffles(n) :
         LET d == [dataset EXCEPT !.n = n, !.ratio = ratio,
                                  !.img_at = [i \in 1..n |-> "root"],
                                  !.lbl_at = [i \in 1..n |-> "root"]]
         IN  dataset' =
               IF ~SumIsOne(ratio)
                 THEN [d EXCEPT !.pc = "raised",
                                !.raised = PyError("AssertionError", <<>>)]
               ELSE [d EXCEPT !.files = files,
                              !.todo = Moves(files, ratio),
                              !.pc = IF Moves(files, ratio) = <<>>
                                       THEN "done" ELSE "moving"]
    /\ UNCHANGED <<remote, metadataLog, proc, retry, pipeline>>

\* One turn of the inner loop, lines 44-48: shutil.move of the image, then
\* of the label; a file that is no longer in its directory cannot be moved.
shutil_move ==
    /\ dataset.pc = "moving"
    /\ LET nm == dataset.todo[1][1]
           i  == dataset.todo[1][2]
       IN  dataset' =
             IF dataset.img_at[i] # "root"
               THEN [dataset EXCEPT !.pc = "raised",
                                    !.raised = PyError("FileNotFoundError", <<"image">>)]
             ELSE IF dataset.lbl_at[i] # "root"
               THEN [dataset EXCEPT !.img_at[i] = nm, !.pc = "raised",
                                    !.raised = PyError("FileNotFoundError", <<"label">>)]
             ELSE [dataset EXCEPT !.img_at[i] = nm, !.lbl_at[i] = nm,
                                  !.todo = Tail(@),
                                  !.pc = IF Len(dataset.todo) = 1
                                           THEN "done" ELSE "moving"]
    /\ UNCHANGED <<remote, metadataLog, proc, retry, pipeline>>

\* ------------------------------------------------------ specification
Init ==
    /\ collections = <<>>
    /\ indexes = {}
    /\ dataSources = <<>>
    /\ jobs = <<>>
    /\ metadataLog = <<>>
    /\ proc = [p \in Procs |-> InitLocals]
    /\ retry = InitRetry
    /\ pipeline = InitPipeline
    /\ dataset = InitDataset

Next ==
    \/ CreateForeignCollection
    \/ IngestionJobProgress
    \/ \E p \in Procs :
         \/ create_aoss_collection(p)
         \/ list_collections(p)
         \/ wait_rules(p)
         \/ create_vector_index(p)
         \/ get_knowledge_base(p)
         \/ create_data_source(p)
         \/ get_data_source(p)
         \/ start_ingestion_job(p)
         \/ get_ingestion_job(p)
         \/ log_model_metadata(p)

Spec == Init /\ [][Next]_vars

NextRetry ==
    \/ create_knowledge_base_func
    \/ retry_attempt
    \/ retry_sleep

SpecRetry == Init /\ [][NextRetry]_vars

\* The first invocation of the workflow on the account, its polling loop not
\* cut short.  A step that is running goes on running: the loop's next turn
\* is taken whenever it stays due.
PollTurn(p) == get_ingestion_job(p) \/ get_ingestion_job_on(p)

NextPoll ==
    \/ IngestionJobProgress
    \/ create_aoss_collection(1)
    \/ wait_rules(1)
    \/ create_vector_index(1)
    \/ get_knowledge_base(1)
    \/ create_data_source(1)
    \/ get_data_source(1)
    \/ start_ingestion_job(1)
    \/ get_ingestion_job(1)
    \/ get_ingestion_job_on(1)
    \/ log_model_metadata(1)

SpecPoll == Init /\ [][NextPoll]_vars /\ WF_vars(PollTurn(1))

NextPipeline ==
    \/ llm_peft_finetune
    \/ pipeline_step

SpecPipeline == Init /\ [][NextPipeline]_vars

\* A call of split_dataset on a directory of pairs.
NextSplit ==
    \/ split_dataset
    \/ shutil_move

SpecSplit == Init /\ [][NextSplit]_vars

\* Two invocations of the workflow that run at the same time: neither waits
\* for the other, and their remote calls interleave in every order.
NextConcurrent ==
    \/ CreateForeignCollection
    \/ IngestionJobProgress
    \/ \E p \in {1, 2} :
         \/ create_collection(p)
         \/ list_collections(p)
         \/ wait_rules(p)
         \/ create_vector_index(p)
         \/ get_knowledge_base(p)
         \/ create_data_source(p)
         \/ get_data_source(p)
         \/ start_ingestion_job(p)
         \/ get_ingestion_job(p)
         \/ log_model_metadata(p)

SpecConcurrent == Init /\ [][NextConcurrent]_vars

\* ----------------------------------------------------------- properties
\* Where nm stands in the listing (0: nowhere).
Position(nm) ==
    IF NameExists(nm)
      THEN CHOOSE i \in DOMAIN collections : collections[i].name = nm
      ELSE 0

Named(nm) == {i \in DOMAIN collections : collections[i].name = nm}

LastCall(p) == proc[p].calls[Len(proc[p].calls)]

\* The last remote call of p raised for a reason other than the resources.
FaultAt(p, ops) ==
    /\ proc[p].faults > 0
    /\ LastCall(p) \in ops

\* create_collection met the existing collection and the fallback has run,
\* its listing answered.
MetConflict(p) ==
    /\ proc[p].err # NoErr
    /\ IsConflict(proc[p].err)
    /\ proc[p].pc # "list_collections"
    /\ ~FaultAt(p, {"list_collections"})

\* p returned from create_aoss_collection with the identifiers of c.
ReturnedTripleOf(p, c) ==
    /\ proc[p].via # "none"
    /\ proc[p].host = c.id \o ".us-east-1.aoss.amazonaws.com"
    /\ proc[p].collection_id = c.id
    /\ proc[p].collection_arn = c.arn

C1_Holds(p) ==
    /\ Cardinality(Named(vector_store_name)) = 1
    /\ proc[p].via = "reused"
    /\ ReturnedTripleOf(p, collections[Position(vector_store_name)])
    /\ \A q \in Procs : proc[q].via = "created" =>
         /\ proc[q].host = proc[p].host
         /\ proc[q].collection_id = proc[p].collection_id
         /\ proc[q].collection_arn = proc[p].collection_arn

\* C1 as stated: whenever create_aoss_collection meets an existing collection
\* named vector_store_name, whatever else the account holds, it creates no
\* second one and returns the existing collection's (host, id, arn), the
\* triple the creating invocation returned.
C1_Original == \A p \in Procs : MetConflict(p) => C1_Holds(p)

\* C1 amended: the same, for an existing collection that is among the first
\* 15 (maxResults) collections list_collections answers with.
C1_Amended ==
    \A p \in Procs :
        (MetConflict(p) /\ Position(vector_store_name) <= 15) => C1_Holds(p)

C1_Witness ==
    /\ proc[1].via = "created"
    /\ proc[2].via = "reused"
    /\ Position(vector_store_name) > 1
    /\ Len(proc[2].calls) = 2

\* C2: when indices.create is made against an index name that exists (the
\* error mentions resource_already_exists_exception), create_vector_index
\* ends without error and returns None, and the remote indexes are the same
\* after the call as before it.
C2_NoOp ==
    /\ [](\A p \in Procs :
            (proc[p].index_err # NoErr
               /\ InStr("resource_already_exists_exception", proc[p].index_err))
            => /\ proc[p].index_result = "returned_none"
               /\ proc[p].index_response = None
               /\ proc[p].raised # proc[p].index_err
               /\ proc[p].error_log = <<>>)
    /\ [][\A p \in Procs :
            (proc[p].pc = "create_index"
               /\ IndexExists(proc[p].host, "bedrock-sample-index-392")
               /\ proc'[p].pc # "create_index")
            => indexes' = indexes]_vars

C2_Witness ==
    \E p \in Procs :
        /\ proc[p].index_result = "returned_none"
        /\ proc[p].index_err # NoErr
        /\ proc[p].pc = "get_kb"

\* The get_ingestion_job calls p made.
GetCalls(p) ==
    Cardinality({i \in DOMAIN proc[p].calls : proc[p].calls[i] = "get_ingestion_job"})

\* C3: with the first COMPLETE at position k of the status sequence (position
\* 0 is start_ingestion_job's answer), the polling loop has made exactly k
\* get_ingestion_job calls, one per earlier status, none of them COMPLETE,
\* stops there and records metadata with ingestion_job_status COMPLETE.
C3_Polling ==
    \A p \in Procs :
        /\ proc[p].pc = "poll" =>
             /\ GetCalls(p) = Len(proc[p].observed) - 1
             /\ proc[p].getCalls = GetCalls(p)
             /\ \A i \in 1..(Len(proc[p].observed) - 1) :
                    proc[p].observed[i] # "COMPLETE"
        /\ proc[p].pc = "done" =>
             LET k == Len(proc[p].observed) - 1
             IN  /\ proc[p].observed[k + 1] = "COMPLETE"
                 /\ \A i \in 1..k : proc[p].observed[i] # "COMPLETE"
                 /\ GetCalls(p) = k
                 /\ proc[p].getCalls = k
                 /\ LastCall(p) = "log_model_metadata"
                 /\ \E i \in DOMAIN metadataLog :
                      /\ metadataLog[i].ingestion_job_id = proc[p].job.ingestionJobId
                      /\ metadataLog[i].ingestion_job_status = "COMPLETE"
                 /\ \A i \in DOMAIN metadataLog :
                      metadataLog[i].ingestion_job_status = "COMPLETE"

C3_Witness ==
    \E p \in Procs :
        /\ proc[p].pc = "done"
        /\ proc[p].observed = <<"STARTING", "IN_PROGRESS", "IN_PROGRESS", "COMPLETE">>
        /\ proc[p].getCalls = 3

\* The collection and index steps of p are over.
CreationOver(p) ==
    proc[p].pc \notin {"idle", "list_collections", "wait_rules", "create_index"}

CreationFault(p) ==
    FaultAt(p, {"create_collection", "list_collections", "indices.create"})

C4_Holds ==
    /\ Cardinality(Named(vector_store_name)) = 1
    /\ Cardinality(indexes) = 1
    /\ \A x \in indexes :
         /\ x.name = "bedrock-sample-index-392"
         /\ x.host = proc[1].host
    /\ proc[2].via = "reused"
    /\ proc[2].host = proc[1].host
    /\ proc[2].index_result = "returned_none"
    /\ proc[2].raised \notin {proc[2].err, proc[2].index_err}

\* Both runs in sequence: the first is complete, the second is past its
\* collection and index steps, which no remote fault interrupted.
C4_TwoRuns ==
    /\ proc[1].pc = "done"
    /\ CreationOver(2)
    /\ ~CreationFault(2)

\* C4 as stated: the workflow run twice in sequence leaves one collection
\* and one index, the second run's two creation calls being resolved through
\* the conflict / already-exists fallback, neither step failing.
C4_Original == C4_TwoRuns => C4_Holds

\* C4 amended: the same, when the collection is among the first 15
\* (maxResults) collections list_collections answers with.
C4_Amended == (C4_TwoRuns /\ Position(vector_store_name) <= 15) => C4_Holds

C4_Witness ==
    /\ proc[1].pc = "done"
    /\ proc[2].via = "reused"
    /\ proc[2].index_result = "returned_none"
    /\ Position(vector_store_name) = 15

\* C5: if the creation call raises on the first two attempts and succeeds on
\* the third, the wrapper returns that third attempt's result; and in every
\* execution no more than 3 attempts are made.
C5_RetryThenReturn ==
    /\ Len(retry.outcomes) <= 3
    /\ retry.attempt_number <= 3
    /\ (/\ Len(retry.outcomes) = 3
        /\ ~retry.outcomes[1].ok
        /\ ~retry.outcomes[2].ok
        /\ retry.outcomes[3].ok)
       => /\ retry.pc = "returned"
          /\ retry.result = retry.outcomes[3].value
          /\ retry.result # None
          /\ retry.raised = NoErr

C5_Witness ==
    /\ retry.pc = "returned"
    /\ Len(retry.outcomes) = 3
    /\ Len(retry.slept) = 2

AllRaised == \A i \in DOMAIN retry.outcomes : ~retry.outcomes[i].ok

\* C6: when the creation call raises on every attempt, the wrapper makes
\* exactly 3 attempts and then raises the last exception, whatever its kind;
\* it returns nothing and until the third attempt it keeps going.
C6_RetryThenRaise ==
    AllRaised =>
        /\ retry.pc # "returned"
        /\ retry.result = None
        /\ Len(retry.outcomes) < 3 => retry.pc \in {"idle", "attempt", "sleep"}
        /\ Len(retry.outcomes) >= 3 =>
             /\ Len(retry.outcomes) = 3
             /\ retry.pc = "raised"
             /\ retry.raised = retry.outcomes[3].err

C6_Witness ==
    /\ retry.pc = "raised"
    /\ retry.raised.type = "EndpointConnectionError"
    /\ retry.outcomes[1].err.code = "ValidationException"

\* C7: every metadata record holds chunking_strategy FIXED_SIZE, max_tokens
\* 512 and overlap_percentage 20, the values sent as the chunking
\* configuration of the data source it names.
C7_ChunkingRecorded ==
    \A i \in DOMAIN metadataLog :
        LET m == metadataLog[i]
        IN  /\ m.chunking_strategy = "FIXED_SIZE"
            /\ m.max_tokens = 512
            /\ m.overlap_percentage = 20
            /\ \E d \in DOMAIN dataSources :
                 /\ dataSources[d].dataSourceId = m.data_source_id
                 /\ dataSources[d].chunkingConfiguration.chunkingStrategy
                      = m.chunking_strategy
                 /\ dataSources[d].chunkingConfiguration.maxTokens = m.max_tokens
                 /\ dataSources[d].chunkingConfiguration.overlapPercentage
                      = m.overlap_percentage

C7_Witness ==
    /\ Len(metadataLog) = 1
    /\ \E p \in Procs : proc[p].pc = "done" /\ proc[p].getCalls = 2

\* C8: when create_collection reports a conflict and the listing holds no
\* collection named vector_store_name, create_aoss_collection fails with an
\* error whose message contains the collection name and returns nothing.
C8_NotFoundNamesCollection ==
    \A p \in Procs :
        (MetConflict(p)
           /\ (Position(vector_store_name) = 0 \/ Position(vector_store_name) > 15))
        => /\ proc[p].pc = "failed"
           /\ proc[p].via = "none"
           /\ InStr("bedrock-vectordb-rag-392", proc[p].raised)

\* C9: when indices.create fails with an error that is no already-exists
\* condition, create_vector_index logs it, raises that same error and
\* returns nothing.
C9_OtherIndexErrorRaised ==
    \A p \in Procs :
        (proc[p].index_err # NoErr
           /\ ~InStr("resource_already_exists_exception", proc[p].index_err))
        => /\ proc[p].pc = "failed"
           /\ proc[p].raised = proc[p].index_err
           /\ proc[p].index_result = "none"
           /\ proc[p].error_log = <<proc[p].index_err>>
           /\ LastCall(p) = "indices.create"

C9_Witness ==
    \E p \in Procs :
        /\ proc[p].pc = "failed"
        /\ proc[p].raised = AuthorizationException
        /\ proc[p].index_err = AuthorizationException

\* p ended on a resource that was already there: a conflict the step did not
\* resolve by reuse.
DuplicateFailure(p) ==
    /\ proc[p].pc = "failed"
    /\ proc[p].faults = 0
    /\ LastCall(p) \in {"create_collection", "list_collections", "indices.create",
                        "create_data_source"}

\* C10: a re-run of the workflow after a failed run never fails because of a
\* duplicate-resource condition: each creation call that meets an existing
\* resource is resolved by reuse.
C10_RerunConverges ==
    \A p \in Procs :
        (p > 1 /\ proc[p - 1].pc = "failed") => ~DuplicateFailure(p)

\* C11: log_model_metadata is called, and the step returns, only after a
\* job status equal to COMPLETE was observed: wherever the call has been
\* made, the last status observed is COMPLETE.
C11_LoggedOnlyAfterComplete ==
    /\ \A p \in Procs :
         (\E i \in DOMAIN proc[p].calls : proc[p].calls[i] = "log_model_metadata"
            \/ proc[p].returned # "")
         => /\ proc[p].observed # <<>>
            /\ proc[p].observed[Len(proc[p].observed)] = "COMPLETE"
            /\ proc[p].job.status = "COMPLETE"
    /\ Len(metadataLog) =
         Cardinality({p \in Procs : proc[p].observed # <<>>
                        /\ proc[p].observed[Len(proc[p].observed)] = "COMPLETE"
                        /\ proc[p].pc = "done"})

C11_Witness ==
    \E p \in Procs :
        /\ proc[p].returned = "FFXX2JSM7L"
        /\ Len(metadataLog) = 1
        /\ \E i \in DOMAIN proc[p].observed : proc[p].observed[i] = "IN_PROGRESS"

\* The loop of p has read FAILED, the status the job stays in.
SawFailed(p) ==
    /\ proc[p].pc = "poll"
    /\ proc[p].job.status = "FAILED"

\* p is still in its loop on FAILED with nothing recorded or returned, or a
\* remote call of its loop raised.
LoopingOrFaulted(p) ==
    \/ /\ SawFailed(p)
       /\ proc[p].returned = ""
       /\ \A i \in DOMAIN proc[p].calls : proc[p].calls[i] # "log_model_metadata"
    \/ /\ proc[p].pc = "failed"
       /\ proc[p].faults > 0
       /\ proc[p].raised \in BotoFaults

\* C12: once the job is FAILED, where it stays, the polling loop never ends:
\* it records no metadata, does not return and raises nothing of its own, and
\* it calls get_ingestion_job again and again for as long as those calls are
\* answered.
C12_FailedNeverEnds ==
    /\ [][\A p \in Procs : SawFailed(p) => LoopingOrFaulted(p)']_vars
    /\ \A p \in Procs : \A n \in 0..MaxPolls : \A t \in {0, 1} :
         (SawFailed(p) /\ proc[p].getCalls = n /\ proc[p].tick = t)
         ~> \/ SawFailed(p) /\ (proc[p].getCalls # n \/ proc[p].tick # t)
            \/ proc[p].faults > 0

C12_Witness ==
    \E p \in Procs :
        /\ SawFailed(p)
        /\ proc[p].observed[1] = "STARTING"
        /\ proc[p].getCalls = MaxPolls
        /\ proc[p].tick = 1
        /\ metadataLog = <<>>

\* C13: with two invocations running at the same time, in every interleaving
\* of their remote calls at most one collection named vector_store_name and
\* at most one index named by create_vector_index exist, and every
\* invocation that has returned from create_aoss_collection holds the
\* identifiers of that one collection.
C13_OneEffectiveResource ==
    /\ Cardinality(Named(vector_store_name)) <= 1
    /\ Cardinality({x \in indexes : x.name = "bedrock-sample-index-392"}) <= 1
    /\ \A p \in {1, 2} :
         proc[p].via # "none" =>
            /\ NameExists(vector_store_name)
            /\ ReturnedTripleOf(p, collections[Position(vector_store_name)])
    /\ \A x \in indexes :
         /\ NameExists(vector_store_name)
         /\ x.host = collections[Position(vector_store_name)].id
                       \o ".us-east-1.aoss.amazonaws.com"

\* Both invocations are under way at once: the second created the
\* collection while the first, started before it, was answered a conflict.
C13_Witness ==
    /\ proc[2].via = "created"
    /\ proc[1].via = "reused"
    /\ proc[1].pc = "create_index"
    /\ proc[2].pc = "create_index"
    /\ Position(vector_store_name) > 1

StepsInvoked == {pipeline.invoked[i].step : i \in DOMAIN pipeline.invoked}

\* C14: every completed run of llm_peft_finetune has invoked the steps its
\* docstring lists: prepare_data, finetune, evaluate_model and promote.
C14_DocumentedStepsRun ==
    pipeline.pc = "done" =>
        {"prepare_data", "finetune", "evaluate_model", "promote"} \subseteq StepsInvoked

\* C15: llm_peft_finetune raises ValueError exactly when load_in_8bit and
\* load_in_4bit are both False or both True, having invoked no step; with
\* exactly one of them True the validation raises nothing.
C15_ExactlyOneFlag ==
    pipeline.pc # "idle" =>
        /\ (pipeline.raised.type = "ValueError")
             <=> (pipeline.args.load_in_8bit = pipeline.args.load_in_4bit)
        /\ (pipeline.args.load_in_8bit = pipeline.args.load_in_4bit)
             => /\ pipeline.pc = "raised"
                /\ pipeline.invoked = <<>>
        /\ (pipeline.args.load_in_8bit # pipeline.args.load_in_4bit)
             => pipeline.pc \in {"steps", "done", "failed"}

C15_Witness ==
    /\ pipeline.pc = "raised"
    /\ pipeline.args.load_in_8bit
    /\ pipeline.args.load_in_4bit
    /\ pipeline.raised.type = "ValueError"

IndexCreateIssued(p) ==
    \E i \in DOMAIN proc[p].calls : proc[p].calls[i] = "indices.create"

\* C16: in every execution of create_vector_index the settling wait of 10
\* seconds is over before indices.create is issued, in a re-run that found
\* the collection existing as in the run that created it.
C16_WaitBeforeIndexCreate ==
    \A p \in Procs :
        /\ (proc[p].pc = "create_index" \/ IndexCreateIssued(p)) => proc[p].waited = 10
        /\ proc[p].pc = "wait_rules" => (proc[p].waited = 0 /\ ~IndexCreateIssued(p))

C16_Witness ==
    /\ proc[1].via = "created"
    /\ IndexCreateIssued(1)
    /\ proc[2].via = "reused"
    /\ IndexCreateIssued(2)
    /\ proc[2].waited = 10

KbStepCalls ==
    <<"get_knowledge_base", "create_data_source", "get_data_source",
      "start_ingestion_job", "get_ingestion_job", "log_model_metadata">>

Rank(op) == CHOOSE i \in DOMAIN KbStepCalls : KbStepCalls[i] = op

IsKbCall(op) == \E i \in DOMAIN KbStepCalls : KbStepCalls[i] = op

\* call b may directly follow call a in create_and_sync_knowledge_base
MayFollow(a, b) ==
    \/ Rank(b) = Rank(a) + 1
    \/ a = "get_ingestion_job" /\ b = "get_ingestion_job"
    \/ a = "start_ingestion_job" /\ b = "log_model_metadata"

\* C17: the remote calls of create_and_sync_knowledge_base are made in the
\* order get_knowledge_base, create_data_source, get_data_source,
\* start_ingestion_job, get_ingestion_job (the polling), log_model_metadata;
\* when create_data_source or start_ingestion_job fails, its error leaves the
\* step as it is and the invocation makes no further call.
C17_ForwardOnly ==
    /\ [](\A p \in Procs :
            /\ \A i \in DOMAIN proc[p].calls :
                 IsKbCall(proc[p].calls[i]) =>
                    IF i > 1 /\ IsKbCall(proc[p].calls[i - 1])
                      THEN MayFollow(proc[p].calls[i - 1], proc[p].calls[i])
                      ELSE /\ proc[p].calls[i] = "get_knowledge_base"
                           /\ i > 1
                           /\ proc[p].calls[i - 1] = "indices.create"
            /\ (proc[p].calls # <<>>
                  /\ LastCall(p) \in {"create_data_source", "start_ingestion_job"}
                  /\ proc[p].call_err # NoErr)
               => /\ proc[p].pc = "failed"
                  /\ proc[p].raised = proc[p].call_err
                  /\ proc[p].returned = ""
                  /\ proc[p].observed = <<>>)
    /\ [][\A p \in Procs : proc[p].pc = "failed" => proc'[p] = proc[p]]_vars

C17_Witness ==
    \E p \in Procs :
        /\ proc[p].pc = "failed"
        /\ LastCall(p) = "start_ingestion_job"
        /\ proc[p].raised = EndpointConnectionError
        /\ Len(dataSources) = 1
        /\ metadataLog = <<>>

IsPrefix(s, t) == Len(s) <= Len(t) /\ \A i \in DOMAIN s : t[i] = s[i]

\* No remote resource is removed or replaced by a step.
NothingDeleted ==
    /\ IsPrefix(collections, collections')
    /\ indexes \subseteq indexes'
    /\ IsPrefix(dataSources, dataSources')
    /\ Len(jobs) <= Len(jobs')
    /\ \A i \in DOMAIN jobs : jobs'[i].ingestionJobId = jobs[i].ingestionJobId

\* What an invocation created is still there.
CreatedStillExists ==
    \A q \in Procs :
        /\ proc[q].via = "created" =>
             \E i \in DOMAIN collections :
                /\ collections[i].name = vector_store_name
                /\ collections[i].id = proc[q].collection_id
        /\ proc[q].index_result = "returned_response" =>
             IndexExists(proc[q].host, local_index_name)

\* Invocation p - 1 failed after it had the collection; p is past its
\* collection step, the two calls of which met no remote fault.
NextAfterFailure(p) ==
    /\ p > 1
    /\ proc[p - 1].pc = "failed"
    /\ proc[p - 1].via # "none"
    /\ proc[p].pc \notin {"idle", "list_collections"}
    /\ ~FaultAt(p, {"create_collection", "list_collections"})

\* p took the collection of p - 1 through the lookup, and where p - 1 had
\* created the index, p's index step found it and created none.
ReusesEarlier(p) ==
    /\ proc[p].via = "reused"
    /\ proc[p].collection_id = proc[p - 1].collection_id
    /\ proc[p].host = proc[p - 1].host
    /\ Cardinality(Named(vector_store_name)) = 1
    /\ (proc[p - 1].index_result = "returned_response"
          /\ proc[p].index_result # "none")
       => /\ proc[p].index_result = "returned_none"
          /\ Cardinality({x \in indexes : x.host = proc[p].host}) = 1

\* C18 as stated: what an invocation created still exists after a later
\* stage of it failed, and the next invocation reuses it through the lookup
\* path instead of creating another, whatever else the account holds.
C18_Original ==
    /\ CreatedStillExists
    /\ \A p \in Procs : NextAfterFailure(p) => ReusesEarlier(p)

\* C18 amended: no step deletes or replaces a remote resource; what an
\* invocation created still exists after a later stage of it failed, and the
\* next invocation reuses it through the lookup path instead of creating
\* another when the collection is among the first 15 (maxResults)
\* collections list_collections answers with.
C18_Amended ==
    /\ [](/\ CreatedStillExists
          /\ \A p \in Procs :
               (NextAfterFailure(p) /\ Position(vector_store_name) <= 15)
               => ReusesEarlier(p))
    /\ [][NothingDeleted]_vars

C18_Witness ==
    /\ proc[1].pc = "failed"
    /\ proc[1].via = "created"
    /\ LastCall(1) = "indices.create"
    /\ proc[2].via = "reused"
    /\ proc[2].index_result = "returned_response"
    /\ Position(vector_store_name) = 15

\* C19: create_and_sync_knowledge_base never makes the knowledge-base
\* creation call, wrapped in retry or not, and the knowledge-base id given to
\* get_knowledge_base, create_data_source, start_ingestion_job and
\* get_ingestion_job, written in the metadata record and returned, is the one
\* pinned constant "FFXX2JSM7L".
C19_PinnedKnowledgeBase ==
    /\ retry = InitRetry
    /\ \A p \in Procs :
         /\ \A i \in DOMAIN proc[p].calls :
              proc[p].calls[i] # "create_knowledge_base"
         /\ proc[p].kb_used \subseteq {"FFXX2JSM7L"}
         /\ (\E i \in DOMAIN proc[p].calls : IsKbCall(proc[p].calls[i]))
            => proc[p].kb_used = {"FFXX2JSM7L"}
         /\ proc[p].returned \in {"", "FFXX2JSM7L"}
         /\ proc[p].pc = "done" => proc[p].returned = "FFXX2JSM7L"
    /\ \A i \in DOMAIN dataSources : dataSources[i].knowledgeBaseId = "FFXX2JSM7L"
    /\ \A i \in DOMAIN jobs : jobs[i].knowledgeBaseId = "FFXX2JSM7L"
    /\ \A i \in DOMAIN metadataLog :
         metadataLog[i].knowledge_base_id = "FFXX2JSM7L"

C19_Witness ==
    \E p \in Procs :
        /\ proc[p].pc = "done"
        /\ proc[p].returned = "FFXX2JSM7L"
        /\ proc[p].getCalls > 0
        /\ Len(metadataLog) = 1
        /\ metadataLog[1].knowledge_base_id = proc[p].returned
        /\ proc[p].kb_used = {proc[p].returned}

\* C20: the vectorIndexName that create_and_sync_knowledge_base puts in the
\* storage configuration is the name of the index create_vector_index
\* creates in the collection, so the index configured exists there once
\* the index step has returned.
C20_ConfiguredIndexIsCreated ==
    \A p \in Procs :
        proc[p].storage # None
        => /\ proc[p].storage.vectorIndexName = local_index_name
           /\ IndexExists(proc[p].host, proc[p].storage.vectorIndexName)

\* create_collection of p raised an error that is no conflict.
CreateFailedOtherwise(p) ==
    /\ proc[p].err # NoErr
    /\ ~IsConflict(proc[p].err)

\* C22: when create_collection fails with an error other than a conflict,
\* create_aoss_collection ends by raising that same error; it makes no
\* list_collections call and returns no (host, collection_id, collection_arn).
C22_OtherErrorPropagated ==
    \A p \in Procs :
        CreateFailedOtherwise(p)
        => /\ proc[p].pc = "failed"
           /\ proc[p].raised = proc[p].err
           /\ \A i \in DOMAIN proc[p].calls : proc[p].calls[i] # "list_collections"
           /\ proc[p].via = "none"
           /\ proc[p].host = ""
           /\ proc[p].collection_arn = ""

\* The pairs split_dataset left in the directory named nm.
InSplit(nm) ==
    {i \in 1..dataset.n : dataset.img_at[i] = nm /\ dataset.lbl_at[i] = nm}

\* C21: for every list of pairs and every ratio summing to 1, split_dataset
\* moves each pair into exactly one of train, test and val (none is left
\* where it was), image and label of a pair into the same one, and the k-th
\* split holds round(ratio[k] * n) pairs.
C21_EveryPairInOneSplit ==
    (dataset.pc \in {"done", "raised"}
       /\ dataset.ratio[1] + dataset.ratio[2] + dataset.ratio[3] = 10)
    => /\ dataset.pc = "done"
       /\ \A i \in 1..dataset.n :
            /\ dataset.img_at[i] \in {"train", "test", "val"}
            /\ dataset.lbl_at[i] = dataset.img_at[i]
       /\ \A k \in 1..3 :
            Cardinality(InSplit(SplitNames[k])) = Round(dataset.ratio[k], dataset.n)

====
